---------------------------- MODULE Spec2Model ----------------------------
(***************************************************************************)
(* CircularArray<N, T> (src/src/lib.rs) and CircularArrayIter              *)
(* (src/src/iter.rs): a fixed-capacity array that accepts any number of    *)
(* pushes, with indexed access, a snapshot, last(), len() and an iterator. *)
(*                                                                         *)
(* The element type is u32 as in the repository's tests; the model draws   *)
(* elements from 0..MaxVal.  usize counters stay far below usize::MAX in   *)
(* every run (the guards cap them), so their additions never overflow.     *)
(***************************************************************************)
EXTENDS Integers, Sequences, FiniteSets

\* ---- bounds of the model ------------------------------------------------
MaxN == 3
MaxVal == 1
MaxPush == 7
MaxWrites == 1
MaxIndex == 4
MaxIters == 2
MaxExtra == 2
MaxFew == 4

\* T::default() for u32 (lib.rs:18, lib.rs:65)
Default == 0

Values == 0..MaxVal
Capacities == 0..MaxN
IterIds == 1..MaxIters

VARIABLES
    N,        \* the const generic N of CircularArray<N, T>
    arr,      \* self.arr, physical slots 0..N-1
    start,    \* self.start
    len,      \* self.len
    iters,    \* the CircularArrayIter values alive, by id
    ret,      \* what the last call returned
    recent,   \* history: the last min(k, N) pushed values, oldest first
    npush,    \* history: k, the number of push calls that returned
    nwrites,  \* history: the number of indexed writes that returned
    wsince,   \* history: an indexed write returned since the last push
    wrote,    \* history: the last indexed write on a live index, while no
              \* push has stored into its slot; shifts counts the pushes
              \* made at len >= N since that write
    follow    \* history: whether wrote is kept (fixed when the array is made)

vars == << N, arr, start, len, iters, ret, recent, npush, nwrites, wsince, wrote, follow >>

\* ---- helpers --------------------------------------------------------------
Slots(n) == 0..(n - 1)

Min(a, b) == IF a <= b THEN a ELSE b

\* an array [T; n] read as a sequence, slot 0 first
ArrToSeq(a, n) == [j \in 1..n |-> a[j - 1]]

\* [T::default(); N]
DefaultArr(n) == [j \in Slots(n) |-> Default]

\* the last n values of history h followed by x
Remember(h, x, n) ==
    LET s == Append(h, x)
    IN  IF Len(s) > n THEN SubSeq(s, Len(s) - n + 1, Len(s)) ELSE s

NoWrite == [on |-> FALSE, idx |-> 0, slot |-> 0, val |-> Default, shifts |-> 0]

Ret(op, idx, item, kind, val, out) ==
    [op |-> op, idx |-> idx, item |-> item, kind |-> kind, val |-> val, out |-> out]

\* ---- CircularArray::push --------------------------------------------------
\* the slot push stores into: self.start once len >= N, else self.len
PushSlotNoWrap(st, ln, n) == ln

\* the write position advanced before the store
PushSlotAdvanced(st, ln, n) ==
    IF ln >= n THEN (IF n > 0 THEN (st + 1) % n ELSE st) ELSE ln

PushSlot(st, ln, n) == IF ln >= n THEN st ELSE ln

\* self.arr[..] = item is bounds checked; % N panics for N = 0
PushPanics(st, ln, n) == PushSlot(st, ln, n) \notin Slots(n) \/ n = 0

PushLenSaturating(ln, n) == Min(ln + 1, n)

PushLen(ln, n) == ln + 1

\* the write position advanced without the modulo
PushResultNoModulo(a, st, ln, n, item) ==
    [arr   |-> [a EXCEPT ![PushSlot(st, ln, n)] = item],
     start |-> st + 1,
     len   |-> PushLen(ln, n)]

PushResult(a, st, ln, n, item) ==
    [arr   |-> [a EXCEPT ![PushSlot(st, ln, n)] = item],
     start |-> (st + 1) % n,
     len   |-> PushLen(ln, n)]

\* ---- Index / IndexMut -----------------------------------------------------
\* (self.start + index) % N with N = 0
IndexDivByZero(ln, n) == ln >= n /\ n = 0

IndexSlotNoOffset(i, st, ln, n) == i

IndexSlot(i, st, ln, n) == IF ln >= n THEN (st + i) % n ELSE i

IndexMutSlotNoOffset(i, st, ln, n) == i

IndexMutSlot(i, st, ln, n) == IF ln >= n THEN (st + i) % n ELSE i

IndexPanics(i, st, ln, n) ==
    IndexDivByZero(ln, n) \/ IndexSlot(i, st, ln, n) \notin Slots(n)

IndexMutPanics(i, st, ln, n) ==
    IndexDivByZero(ln, n) \/ IndexMutSlot(i, st, ln, n) \notin Slots(n)

\* &self[index]: the element, or a panic
IndexResult(a, i, st, ln, n) ==
    IF IndexPanics(i, st, ln, n)
    THEN [kind |-> "panic", val |-> Default]
    ELSE [kind |-> "some", val |-> a[IndexSlot(i, st, ln, n)]]

\* ---- CircularArray::last --------------------------------------------------
LastIndexNoWrap(ln, n) == ln - 1

LastIndex(ln, n) == IF ln >= n THEN n - 1 ELSE ln - 1

\* last() without the branch for the empty array
LastResultNoEmptyCheck(a, st, ln, n) ==
    IF ln >= n /\ n = 0 THEN [kind |-> "panic", val |-> Default]
    ELSE IndexResult(a, LastIndex(ln, n), st, ln, n)

\* N - 1 underflows for N = 0 (and the index then divides by zero)
LastResult(a, st, ln, n) ==
    IF ln >= n /\ n = 0 THEN [kind |-> "panic", val |-> Default]
    ELSE IF ln >= n \/ ln > 0 THEN IndexResult(a, LastIndex(ln, n), st, ln, n)
    ELSE [kind |-> "none", val |-> Default]

\* ---- CircularArray::to_array ----------------------------------------------
\* the copy_nonoverlapping calls, as (source offset, destination offset, count)
\* the rotation applied whenever start > 0, full or not
ToArrayCopiesNoLenCheck(st, ln, n) ==
    IF st > 0
    THEN << [src |-> st, dst |-> 0,      cnt |-> n - st],
            [src |-> 0,  dst |-> n - st, cnt |-> n - st] >>
    ELSE << [src |-> 0,  dst |-> 0,      cnt |-> n] >>

ToArrayCopies(st, ln, n) ==
    IF ln >= n /\ st > 0
    THEN << [src |-> st, dst |-> 0,      cnt |-> n - st],
            [src |-> 0,  dst |-> n - st, cnt |-> n - st] >>
    ELSE << [src |-> 0,  dst |-> 0,      cnt |-> n] >>

CopyInBounds(c, n) == c.src + c.cnt <= n /\ c.dst + c.cnt <= n

\* the destination after one copy (the part of it inside the destination)
CopyNonoverlapping(dest, a, c, n) ==
    [j \in Slots(n) |->
        IF c.dst <= j /\ j < c.dst + c.cnt THEN a[c.src + (j - c.dst)] ELSE dest[j]]

RECURSIVE ApplyCopies(_, _, _, _)
ApplyCopies(dest, a, cs, n) ==
    IF cs = << >> THEN dest
    ELSE ApplyCopies(CopyNonoverlapping(dest, a, Head(cs), n), a, Tail(cs), n)

\* what to_array can return.  A copy that runs past the destination is
\* undefined behaviour: the call may return any array, or not return.
ToArrayOutcomes(a, st, ln, n) ==
    LET cs == ToArrayCopies(st, ln, n)
    IN  IF \A k \in 1..Len(cs) : CopyInBounds(cs[k], n)
        THEN {[kind |-> "array", out |-> ArrToSeq(ApplyCopies(DefaultArr(n), a, cs, n), n)]}
        ELSE {[kind |-> "array", out |-> s] : s \in [1..n -> Values]}
             \cup {[kind |-> "abort", out |-> << >>]}

\* ---- CircularArrayIter ----------------------------------------------------
NoIter == [live |-> FALSE, index |-> 0, out |-> << >>, ended |-> FALSE]

\* CircularArrayIter::new
IterFresh == [live |-> TRUE, index |-> 0, out |-> << >>, ended |-> FALSE]

\* circular_array.seq, the field next() compares its cursor with. lib.rs
\* declares arr, start and len only, so the field is taken from the data
\* model of the specification: an iterator produces elements until
\* index == min(count, N), the number of elements the array holds.
seq(ln, n) == Min(ln, n)

IterHasNextOffByOne(index, sq) == index <= sq

IterHasNextNotEqual(index, sq) == index # sq

\* self.index < self.circular_array.seq
IterHasNext(index, sq) == index < sq

\* next() reading the storage slot at the cursor instead of indexing the array
IterNextResultPhysical(index, a, st, ln, n) ==
    IF IterHasNext(index, seq(ln, n)) THEN [kind |-> "some", val |-> a[index]]
    ELSE [kind |-> "none", val |-> Default]

IterNextResult(index, a, st, ln, n) ==
    IF IterHasNext(index, seq(ln, n)) THEN IndexResult(a, index, st, ln, n)
    ELSE [kind |-> "none", val |-> Default]

AnyIterLive == \E j \in IterIds : iters[j].live

\* ---- history of the last indexed write -----------------------------------
\* arr[i] = x returned: the write is followed while i is a live index
WroteAt(i, x, st, ln, n) ==
    IF i < Min(ln, n)
    THEN [on |-> TRUE, idx |-> i, slot |-> IndexMutSlot(i, st, ln, n), val |-> x, shifts |-> 0]
    ELSE NoWrite

\* a push stored into slot: the written element is gone if that is its slot
WroteAfterPush(w, slot, ln, n) ==
    IF ~w.on THEN w
    ELSE IF slot = w.slot THEN NoWrite
    ELSE [w EXCEPT !.shifts = IF ln >= n THEN w.shifts + 1 ELSE w.shifts]

\* ---- the state machine ----------------------------------------------------
\* CircularArray::<N, T>::new()
InitFollowing(f) ==
    /\ N \in Capacities
    /\ arr = DefaultArr(N)
    /\ start = 0
    /\ len = 0
    /\ iters = [j \in IterIds |-> NoIter]
    /\ ret = Ret("new", 0, Default, "unit", Default, << >>)
    /\ recent = << >>
    /\ npush = 0
    /\ nwrites = 0
    /\ wsince = FALSE
    /\ wrote = NoWrite
    /\ follow = f

\* CircularArray::new()
Init == InitFollowing(FALSE)

\* CircularArray::new(), with the last indexed write followed
InitWrite == InitFollowing(TRUE)

\* arr.push(item); needs &mut self, so no iterator is alive
Push(item) ==
    /\ ~AnyIterLive
    /\ npush < MaxPush
    /\ IF PushPanics(start, len, N)
       THEN /\ ret' = Ret("push", 0, item, "panic", Default, << >>)
            /\ UNCHANGED << arr, start, len, recent, npush, wsince, wrote >>
       ELSE LET r == PushResult(arr, start, len, N, item)
            IN  /\ arr' = r.arr
                /\ start' = r.start
                /\ len' = r.len
                /\ ret' = Ret("push", 0, item, "unit", Default, << >>)
                /\ recent' = Remember(recent, item, N)
                /\ npush' = npush + 1
                /\ wsince' = FALSE
                /\ wrote' = WroteAfterPush(wrote, PushSlot(start, len, N), len, N)
    /\ UNCHANGED << N, iters, nwrites, follow >>

\* arr[i]
IndexRead(i) ==
    /\ LET r == IndexResult(arr, i, start, len, N)
       IN  ret' = Ret("index", i, Default, r.kind, r.val, << >>)
    /\ UNCHANGED << N, arr, start, len, iters, recent, npush, nwrites, wsince, wrote, follow >>

\* an indexed write that also counts as an insertion
IndexWriteCounted(i, x) ==
    /\ ~AnyIterLive
    /\ nwrites < MaxWrites
    /\ IF IndexMutPanics(i, start, len, N)
       THEN /\ ret' = Ret("index_mut", i, x, "panic", Default, << >>)
            /\ UNCHANGED << arr, len, nwrites, wsince, wrote >>
       ELSE /\ arr' = [arr EXCEPT ![IndexMutSlot(i, start, len, N)] = x]
            /\ len' = len + 1
            /\ ret' = Ret("index_mut", i, x, "unit", Default, << >>)
            /\ nwrites' = nwrites + 1
            /\ wsince' = TRUE
            /\ wrote' = IF follow THEN WroteAt(i, x, start, len, N) ELSE wrote
    /\ UNCHANGED << N, start, iters, recent, npush, follow >>

\* arr[i] = x; needs &mut self, so no iterator is alive
IndexWrite(i, x) ==
    /\ ~AnyIterLive
    /\ nwrites < MaxWrites
    /\ IF IndexMutPanics(i, start, len, N)
       THEN /\ ret' = Ret("index_mut", i, x, "panic", Default, << >>)
            /\ UNCHANGED << arr, nwrites, wsince, wrote >>
       ELSE /\ arr' = [arr EXCEPT ![IndexMutSlot(i, start, len, N)] = x]
            /\ ret' = Ret("index_mut", i, x, "unit", Default, << >>)
            /\ nwrites' = nwrites + 1
            /\ wsince' = TRUE
            /\ wrote' = IF follow THEN WroteAt(i, x, start, len, N) ELSE wrote
    /\ UNCHANGED << N, start, len, iters, recent, npush, follow >>

\* arr.to_array()
ToArray ==
    /\ \E o \in ToArrayOutcomes(arr, start, len, N) :
          ret' = Ret("to_array", 0, Default, o.kind, Default, o.out)
    /\ UNCHANGED << N, arr, start, len, iters, recent, npush, nwrites, wsince, wrote, follow >>

\* last() that takes the element out of its slot
LastTaking ==
    /\ LET r == LastResult(arr, start, len, N)
       IN  /\ ret' = Ret("last", 0, Default, r.kind, r.val, << >>)
           /\ arr' = IF r.kind = "some"
                     THEN [arr EXCEPT ![IndexSlot(LastIndex(len, N), start, len, N)] = Default]
                     ELSE arr
    /\ UNCHANGED << N, start, len, iters, recent, npush, nwrites, wsince, wrote, follow >>

\* arr.last()
Last ==
    /\ LET r == LastResult(arr, start, len, N)
       IN  ret' = Ret("last", 0, Default, r.kind, r.val, << >>)
    /\ UNCHANGED << N, arr, start, len, iters, recent, npush, nwrites, wsince, wrote, follow >>

\* arr.len()
LenCall ==
    /\ ret' = Ret("len", 0, Default, "usize", len, << >>)
    /\ UNCHANGED << N, arr, start, len, iters, recent, npush, nwrites, wsince, wrote, follow >>

\* arr.iter()
IterNew(j) ==
    /\ ~iters[j].live
    /\ iters' = [iters EXCEPT ![j] = IterFresh]
    /\ ret' = Ret("iter", j, Default, "unit", Default, << >>)
    /\ UNCHANGED << N, arr, start, len, recent, npush, nwrites, wsince, wrote, follow >>

\* next() on a cursor that all the iterators share
IterNextShared(j) ==
    /\ iters[j].live
    /\ iters[j].index < seq(len, N) + MaxExtra
    /\ LET it == iters[j]
           r  == IterNextResult(it.index, arr, start, len, N)
       IN  /\ iters' = [k \in IterIds |->
                          IF k = j
                          THEN [live  |-> TRUE,
                                index |-> it.index + 1,
                                out   |-> IF r.kind = "some" THEN Append(it.out, r.val) ELSE it.out,
                                ended |-> it.ended \/ r.kind = "none"]
                          ELSE IF iters[k].live
                               THEN [iters[k] EXCEPT !.index = iters[k].index + 1]
                               ELSE iters[k]]
           /\ ret' = Ret("next", j, Default, r.kind, r.val, << >>)
    /\ UNCHANGED << N, arr, start, len, recent, npush, nwrites, wsince, wrote, follow >>

\* iter.next()
IterNext(j) ==
    /\ iters[j].live
    /\ iters[j].index < seq(len, N) + MaxExtra
    /\ LET it == iters[j]
           r  == IterNextResult(it.index, arr, start, len, N)
       IN  /\ iters' = [iters EXCEPT ![j] =
                          [live  |-> TRUE,
                           index |-> it.index + 1,
                           out   |-> IF r.kind = "some" THEN Append(it.out, r.val) ELSE it.out,
                           ended |-> it.ended \/ r.kind = "none"]]
           /\ ret' = Ret("next", j, Default, r.kind, r.val, << >>)
    /\ UNCHANGED << N, arr, start, len, recent, npush, nwrites, wsince, wrote, follow >>

\* the iterator goes out of scope and its borrow ends
IterDrop(j) ==
    /\ iters[j].live
    /\ iters' = [iters EXCEPT ![j] = NoIter]
    /\ UNCHANGED << N, arr, start, len, ret, recent, npush, nwrites, wsince, wrote, follow >>

\* every operation of the crate
Next ==
    \/ \E item \in Values : Push(item)
    \/ \E i \in 0..MaxIndex : IndexRead(i)
    \/ \E i \in 0..MaxIndex, x \in Values : IndexWrite(i, x)
    \/ ToArray
    \/ Last
    \/ LenCall
    \/ \E j \in IterIds : IterNew(j)
    \/ \E j \in IterIds : IterNext(j)
    \/ \E j \in IterIds : IterDrop(j)

Spec == Init /\ [][Next]_vars

\* The operations of CircularArray itself.  The iterator only reads the
\* array and nothing outside it reads the iterator, so the array's behaviour
\* is the same with and without iterators alive.
NextBuffer ==
    \/ \E item \in Values : Push(item)
    \/ \E i \in 0..MaxIndex : IndexRead(i)
    \/ \E i \in 0..MaxIndex, x \in Values : IndexWrite(i, x)
    \/ ToArray
    \/ Last
    \/ LenCall

SpecBuffer == Init /\ [][NextBuffer]_vars

\* Pushes, indexed reads and writes, last() and len(), with the last indexed
\* write followed from the write to the push that overwrites it.
NextWrite ==
    \/ \E item \in Values : Push(item)
    \/ \E i \in 0..MaxIndex : IndexRead(i)
    \/ \E i \in 0..MaxIndex, x \in Values : IndexWrite(i, x)
    \/ Last
    \/ LenCall

SpecWrite == InitWrite /\ [][NextWrite]_vars

\* a push among the first few
PushFew(item) == npush < MaxFew /\ Push(item)

\* A few pushes followed by traversals: any number of iterators, alive
\* together, over an array that only push has written.
NextIter ==
    \/ \E item \in Values : PushFew(item)
    \/ LenCall
    \/ \E j \in IterIds : IterNew(j)
    \/ \E j \in IterIds : IterNext(j)
    \/ \E j \in IterIds : IterDrop(j)

SpecIter == Init /\ [][NextIter]_vars

\* the first iterator id
FirstIter == {j \in IterIds : \A k \in IterIds : j <= k}

\* Pushes followed by every read of the crate, in any order: indexed reads,
\* snapshots, last(), len() and one traversal at a time (SpecIter has the
\* traversals that overlap).
NextRead ==
    \/ \E item \in Values : Push(item)
    \/ \E i \in 0..MaxIndex : IndexRead(i)
    \/ ToArray
    \/ Last
    \/ LenCall
    \/ \E j \in FirstIter : IterNew(j)
    \/ \E j \in FirstIter : IterNext(j)
    \/ \E j \in FirstIter : IterDrop(j)

SpecRead == Init /\ [][NextRead]_vars

TypeOK ==
    /\ N \in Capacities
    /\ arr \in [Slots(N) -> Values]
    /\ start \in Nat
    /\ len \in Nat
    /\ npush \in 0..MaxPush
    /\ nwrites \in 0..MaxWrites
    /\ wsince \in BOOLEAN
    /\ wrote.on \in BOOLEAN
    /\ follow \in BOOLEAN
    /\ wrote.on => (wrote.slot \in Slots(N) /\ arr[wrote.slot] = wrote.val)
    /\ Len(recent) = Min(npush, N)


\* ---- properties -----------------------------------------------------------
IsPrefix(s, t) == Len(s) <= Len(t) /\ s = SubSeq(t, 1, Len(s))

\* the array has only ever been written by push
OnlyPushed == nwrites = 0

\* C1: after k > N pushes and no indexed write, to_array() returns the last
\* N pushed values, oldest first, whatever the write position.
C1_OverwriteOrder ==
    (N >= 1 /\ ret.op = "to_array" /\ npush > N /\ OnlyPushed)
        => (ret.kind = "array" /\ ret.out = recent)

\* C2: after k > N pushes an iterator yields the last N pushed values,
\* oldest first, and then None.
C2_IterWrapped ==
    \A j \in IterIds :
        (N >= 1 /\ iters[j].live /\ npush > N /\ OnlyPushed)
            => /\ IsPrefix(iters[j].out, recent)
               /\ iters[j].ended = (iters[j].index > N)
               /\ iters[j].ended => iters[j].out = recent

C2_Witness ==
    \E j \in IterIds :
        /\ iters[j].live /\ iters[j].ended
        /\ N >= 3 /\ npush > N /\ start > 0
        /\ iters[j].out = recent
        /\ iters[j].index >= N + 2
        /\ \E v \in 1..(Len(recent) - 1) : recent[v] # recent[v + 1]

\* C3: after k <= N pushes an iterator yields v_1..v_k in push order: its
\* first min(c, k) elements after c calls, and None from call k + 1 on.
C3_IterFilling ==
    \A j \in IterIds :
        (N >= 1 /\ iters[j].live /\ npush <= N /\ OnlyPushed)
            => /\ iters[j].out = SubSeq(recent, 1, Min(iters[j].index, npush))
               /\ iters[j].ended = (iters[j].index > npush)
               /\ iters[j].ended => iters[j].out = recent

C3_Witness ==
    \E j \in IterIds :
        /\ iters[j].live /\ iters[j].ended
        /\ N >= 3 /\ npush = N - 1
        /\ iters[j].out = recent
        /\ \E v \in 1..Len(recent) : recent[v] # Default

\* C4: once next() has returned None on an iterator, every later call to
\* next() on it returns None too, and still advances the cursor by one.
C4_ExhaustionPermanent ==
    [][\A j \in IterIds :
          (iters[j].live /\ iters[j].ended /\ iters'[j].live /\ iters'[j] # iters[j])
              => /\ ret'.op = "next" /\ ret'.idx = j /\ ret'.kind = "none"
                 /\ iters'[j].index = iters[j].index + 1
                 /\ iters'[j].ended]_vars

C4_Witness ==
    \E j \in IterIds :
        /\ iters[j].live /\ iters[j].ended
        /\ npush >= 1
        /\ iters[j].index >= seq(len, N) + 2
        /\ ret.op = "next" /\ ret.idx = j /\ ret.kind = "none"

\* C5: after k >= 1 pushes, with no indexed write since the last one,
\* last() returns Some(v_k).
C5_LastMatchesFinalPush ==
    (N >= 1 /\ ret.op = "last" /\ npush >= 1 /\ ~wsince)
        => (ret.kind = "some" /\ ret.val = recent[Len(recent)])

C5_Witness ==
    /\ ret.op = "last" /\ ret.kind = "some" /\ ret.val # Default
    /\ N >= 2 /\ npush > N /\ start > 0
    /\ nwrites > 0 /\ ~wsince

\* C6: len() returns the number of pushes made, also beyond N and whatever
\* reads and indexed writes came in between.
C6_LenCumulative ==
    N >= 1 => (len = npush /\ (ret.op = "len" => (ret.kind = "usize" /\ ret.val = npush)))

C6_Witness ==
    /\ ret.op = "len" /\ ret.val = npush
    /\ N >= 2 /\ npush > N /\ nwrites > 0

\* C7: after pushes only, reading live logical index i returns
\* v_{max(0, k - N) + i + 1}: physical slot i while filling, physical slot
\* (start + i) % N once len >= N, where slot start holds the oldest element.
C7_IndexedRead ==
    (N >= 1 /\ ret.op = "index" /\ ret.idx < Min(npush, N) /\ OnlyPushed)
        => /\ ret.kind = "some"
           /\ ret.val = recent[ret.idx + 1]
           /\ len < N => (ret.val = arr[ret.idx] /\ start = len)
           /\ len >= N => (ret.val = arr[(start + ret.idx) % N] /\ arr[start] = recent[1])

C7_Witness ==
    /\ ret.op = "index" /\ ret.kind = "some" /\ ret.val # Default
    /\ N >= 3 /\ npush > N /\ start > 0 /\ OnlyPushed
    /\ ret.idx > 0 /\ ret.idx < N
    /\ arr[ret.idx] # ret.val

\* C8: right after arr[i] = x on a live logical index i, arr[i] reads x,
\* filling or wrapped.
C8_WriteThenRead ==
    (N >= 1 /\ ret.op = "index_mut" /\ ret.idx < Min(len, N))
        => /\ ret.kind = "unit"
           /\ IndexResult(arr, ret.idx, start, len, N) = [kind |-> "some", val |-> ret.item]

C8_Witness ==
    /\ ret.op = "index_mut" /\ ret.kind = "unit"
    /\ N >= 3 /\ len > N /\ start > 0
    /\ ret.idx > 0 /\ ret.idx < N
    /\ IndexResult(arr, ret.idx, start, len, N).val = ret.item
    /\ arr[ret.idx] # ret.item

\* C9: an indexed read or write with logical index >= N panics, filling or
\* wrapped.
C9_OutOfBoundsFails ==
    (N >= 1 /\ ret.op \in {"index", "index_mut"} /\ ret.idx >= N)
        => ret.kind = "panic"

\* C10: for N >= 1 push never fails, in any state: empty, filling, full or
\* wrapped any number of times.
C10_PushInfallible ==
    N >= 1 => /\ ~PushPanics(start, len, N)
              /\ ret.op = "push" => ret.kind = "unit"

C10_Witness ==
    /\ ret.op = "push" /\ ret.kind = "unit"
    /\ N >= 2 /\ npush > 2 * N /\ len = npush


\* C11: after new() and any pushes and indexed writes, 0 <= start < N, and
\* start = len while len < N.
C11_WritePosition ==
    N >= 1 => /\ start \in Slots(N)
              /\ len < N => start = len

C11_Witness ==
    /\ N >= 3 /\ npush > N /\ start = N - 1
    /\ nwrites > 0 /\ ret.op = "push"

\* the live logical indices
Live(ln, n) == 0..(Min(ln, n) - 1)

\* the step is a push that returned
PushStep == npush' = npush + 1

\* the step is an indexed write that returned
WriteStep == nwrites' = nwrites + 1

\* C13: a push stores the item in physical slot len % N (len as before the
\* push), leaves every other slot as it was, sets start to (start + 1) % N
\* and adds exactly one to len.
C13_PushOneSlot ==
    [][(N >= 1 /\ PushStep)
          => /\ ret'.op = "push"
             /\ arr' = [arr EXCEPT ![len % N] = ret'.item]
             /\ start' = (start + 1) % N
             /\ len' = len + 1]_vars

C13_Witness ==
    /\ ret.op = "push" /\ ret.kind = "unit"
    /\ N >= 3 /\ npush = N + 1 /\ OnlyPushed
    /\ arr[0] = ret.item /\ arr[1] # ret.item
    /\ ArrToSeq(arr, N) = << recent[N] >> \o SubSeq(recent, 1, N - 1)

\* C14: after k <= N pushes and no indexed write, to_array() returns N
\* elements: v_1..v_k in push order, then T::default() in positions k..N-1.
C14_SnapshotFilling ==
    (N >= 1 /\ ret.op = "to_array" /\ npush <= N /\ OnlyPushed)
        => /\ ret.kind = "array"
           /\ Len(ret.out) = N
           /\ \A p \in 1..N :
                 ret.out[p] = IF p <= npush THEN recent[p] ELSE Default

C14_Witness ==
    /\ ret.op = "to_array" /\ ret.kind = "array"
    /\ N >= 3 /\ npush = N - 1 /\ OnlyPushed
    /\ ret.out[1] # Default /\ ret.out[N] = Default

\* the destination offsets a copy writes
CopyWrites(c) == {c.dst + d : d \in 0..(c.cnt - 1)}

\* C17: every copy of to_array() reads source offsets in [0, N) and writes
\* destination offsets in [0, N); wrapped with start > 0, the two copies
\* write each destination offset 0..N-1 exactly once.
C17_CopiesInBounds ==
    (N >= 1 /\ ret.op = "to_array")
        => LET cs == ToArrayCopies(start, len, N)
           IN  /\ \A k \in 1..Len(cs) : CopyInBounds(cs[k], N)
               /\ (len >= N /\ start > 0)
                     => \A d \in Slots(N) :
                           Cardinality({k \in 1..Len(cs) : d \in CopyWrites(cs[k])}) = 1

\* C18 as stated: an indexed write on a live logical index i leaves start,
\* len and every other live index as they were and makes index i read x;
\* reads leave the array as it was; and as long as no push has overwritten
\* the written element, an indexed read at i returns x.
C18_WriteFrame ==
    [][N >= 1 =>
         /\ (WriteStep /\ ret'.idx \in Live(len, N))
               => /\ start' = start /\ len' = len
                  /\ IndexResult(arr', ret'.idx, start', len', N)
                        = [kind |-> "some", val |-> ret'.item]
                  /\ \A j \in Live(len, N) \ {ret'.idx} :
                        IndexResult(arr', j, start', len', N)
                            = IndexResult(arr, j, start, len, N)
         /\ (~WriteStep /\ ~PushStep)
               => (arr' = arr /\ start' = start /\ len' = len)
         /\ wrote'.on
               => IndexResult(arr', wrote'.idx, start', len', N)
                     = [kind |-> "some", val |-> wrote'.val]]_vars

\* C18, amended: the write's frame as stated; the written value is read at
\* index i while len < N and at index i - m after m pushes made at
\* len >= N, and the push that overwrites it is the one made when it is at
\* index 0 (the last indexed write is the one followed).
C18_WriteFrameMoving ==
    [][N >= 1 =>
         /\ (WriteStep /\ ret'.idx \in Live(len, N))
               => /\ start' = start /\ len' = len
                  /\ wrote'.on /\ wrote'.idx = ret'.idx /\ wrote'.val = ret'.item
                  /\ IndexResult(arr', ret'.idx, start', len', N)
                        = [kind |-> "some", val |-> ret'.item]
                  /\ \A j \in Live(len, N) \ {ret'.idx} :
                        IndexResult(arr', j, start', len', N)
                            = IndexResult(arr, j, start, len, N)
         /\ (~WriteStep /\ ~PushStep)
               => (arr' = arr /\ start' = start /\ len' = len)
         /\ wrote'.on
               => /\ wrote'.shifts <= wrote'.idx
                  /\ IndexResult(arr', wrote'.idx - wrote'.shifts, start', len', N)
                        = [kind |-> "some", val |-> wrote'.val]
         /\ (PushStep /\ wrote.on /\ ~wrote'.on)
               => (len >= N /\ wrote.shifts = wrote.idx)]_vars

C18_Witness ==
    /\ ret.op = "index" /\ ret.kind = "some"
    /\ N >= 3 /\ len > N /\ start > 0
    /\ wrote.on /\ wrote.shifts >= 1
    /\ ret.idx = wrote.idx - wrote.shifts
    /\ ret.val = wrote.val
    /\ ret.val # recent[ret.idx + 1]
    /\ IndexResult(arr, wrote.idx, start, len, N).val # wrote.val


\* C20: a buffer with N = 0 is rejected by new(), or else every later
\* operation, push included, completes without failure and the buffer
\* holds no element.
C20_ZeroCapacity ==
    N = 0 => (ret.kind # "panic" /\ len = 0)


\* C12: on a buffer with no pushes, last() returns None, len() returns 0
\* and an iterator returns None on its first next().
C12_EmptyBuffer ==
    (N >= 1 /\ npush = 0)
        => /\ ret.op = "last" => ret.kind = "none"
           /\ ret.op = "len" => (ret.kind = "usize" /\ ret.val = 0)
           /\ ret.op = "next" => ret.kind = "none"
           /\ \A j \in IterIds :
                 iters[j].live => (iters[j].out = << >> /\ iters[j].ended = (iters[j].index >= 1))

C12_Witness ==
    /\ N >= 1 /\ npush = 0 /\ len = 0
    /\ ret.op = "last" /\ ret.kind = "none"
    /\ \E j \in IterIds : iters[j].live /\ iters[j].ended /\ iters[j].index = 1

\* the physical slots push has stored into: push k (from 0) stores into
\* slot k % N
PushedSlots == {k % N : k \in 0..(npush - 1)}

\* C15: while count < N, no indexed read and no element an iterator yields
\* is the content of a physical slot that no push has written.
C15_FillerNotExposed ==
    (N >= 1 /\ len < N)
        => /\ (ret.op = "index" /\ ret.kind = "some")
                 => IndexSlot(ret.idx, start, len, N) \in PushedSlots
           /\ \A j \in IterIds :
                 (ret.op = "next" /\ ret.idx = j /\ ret.kind = "some" /\ iters[j].live)
                     => IndexSlot(iters[j].index - 1, start, len, N) \in PushedSlots

\* the operations that take &self
ReadOps == {"to_array", "last", "len", "index", "iter", "next"}

\* the step is a read: a call of a read operation, or an iterator created,
\* advanced or dropped
ReadStep == (ret'.op \in ReadOps /\ ret' # ret) \/ iters' # iters

\* C16: to_array(), last(), len(), an indexed read, iter() and next() leave
\* the storage, start and len as they were, so every read returns afterwards
\* what it would have returned before (to_array makes the same copies of the
\* same storage).
C16_ReadsDoNotMutate ==
    [][ReadStep
          => /\ arr' = arr /\ start' = start /\ len' = len /\ N' = N
             /\ LastResult(arr', start', len', N') = LastResult(arr, start, len, N)
             /\ ToArrayCopies(start', len', N') = ToArrayCopies(start, len, N)
             /\ \A i \in 0..MaxIndex :
                   IndexResult(arr', i, start', len', N') = IndexResult(arr, i, start, len, N)
             /\ \A j \in IterIds :
                   (iters[j].live /\ iters'[j] = iters[j])
                       => IterNextResult(iters'[j].index, arr', start', len', N')
                              = IterNextResult(iters[j].index, arr, start, len, N)]_vars

C16_Witness ==
    /\ N >= 2 /\ npush > N /\ start > 0
    /\ ret.op = "last" /\ ret.kind = "some" /\ ret.val # Default
    /\ \E j \in IterIds : iters[j].live /\ iters[j].index >= 2
    /\ ArrToSeq(arr, N) = SubSeq(recent, N - start + 1, N) \o SubSeq(recent, 1, N - start)

\* what an iterator on its own has yielded after c calls of next()
SoloOut(c, a, st, ln, n) ==
    [p \in 1..Min(c, seq(ln, n)) |-> IndexResult(a, p - 1, st, ln, n).val]

\* C19: iter() returns an iterator with cursor 0, and with any number of
\* iterators over the same array, advanced in any order, each has yielded
\* what it would have yielded alone; next() on one changes neither another
\* iterator nor the array.
C19_IteratorsIndependent ==
    [][/\ \A j \in IterIds :
            /\ (~iters[j].live /\ iters'[j].live)
                  => (iters'[j].index = 0 /\ iters'[j].out = << >> /\ ~iters'[j].ended)
            /\ (iters[j].live /\ iters'[j].live /\ iters'[j] # iters[j])
                  => /\ iters'[j].index = iters[j].index + 1
                     /\ \A k \in IterIds \ {j} : iters'[k] = iters[k]
                     /\ arr' = arr /\ start' = start /\ len' = len
            /\ iters'[j].live
                  => /\ iters'[j].out = SoloOut(iters'[j].index, arr', start', len', N')
                     /\ iters'[j].ended = (iters'[j].index > seq(len', N'))]_vars

C19_Witness ==
    /\ N >= 2 /\ npush >= 3
    /\ \E j, k \in IterIds :
          /\ iters[j].live /\ iters[k].live
          /\ iters[j].index = 1 /\ iters[k].index = 3
          /\ Len(iters[j].out) = 1 /\ Len(iters[k].out) = 3
          /\ iters[k].out[2] # iters[j].out[1]
    /\ ret.op = "next"

=============================================================================
